---- MODULE Spec2Model ----
(***************************************************************************)
(* The ambient header animation of src/src/ambient.js with the particle    *)
(* system of src/src/particles.js, as a state machine.                     *)
(*                                                                         *)
(* The closure state of createAmbientHeader is the set of variables below. *)
(* Every handler of the program is a pure operator from a state record to  *)
(* a state record (so that a handler that calls other handlers is their    *)
(* composition), and every action applies one handler to the current       *)
(* state.  JavaScript is single threaded: a handler runs to completion,    *)
(* so one handler is one atomic step.                                      *)
(*                                                                         *)
(* Numbers.  Lengths are whole pixels and arithmetic that JavaScript does  *)
(* in floating point is done in whole pixels with truncation toward zero.  *)
(* The values of particle fields can be NaN in the program, so they are    *)
(* tagged values: Num(i), NaN or Undefined.  Time is counted in ticks of   *)
(* 50 ms.                                                                  *)
(***************************************************************************)
EXTENDS Integers, Sequences, FiniteSets, TLC

VARIABLES
  config,          \* ambient.js:70   the merged configuration
  isRunning,       \* ambient.js:73
  isPaused,        \* ambient.js:74
  animationId,     \* ambient.js:75   0 is null
  time,            \* ambient.js:76   accumulated animation time
  lastFrameTime,   \* ambient.js:77
  width,           \* ambient.js:85
  height,          \* ambient.js:86
  fbm,             \* ambient.js:89   FALSE is null
  noiseField,      \* ambient.js:90   the length of the array, -1 is null
  particles,       \* ambient.js:91   sequence of Particle records
  cols,            \* ambient.js:92
  rows,            \* ambient.js:93
  mouse,           \* ambient.js:96
  logoState,       \* ambient.js:105
  resizeTimeout,   \* ambient.js:423  TRUE while the debounce timer is pending
  prefersReducedMotion, \* ambient.js:120
  now,             \* the host clock, performance.now(), in ticks
  rect,            \* the canvas element's bounding box <<width, height>>
  pending,         \* frame callbacks requested and neither fired nor cancelled
  listeners,       \* the registered event listeners, <<target, type>>
  loads,           \* the logo loads in flight (loadLogoAndInitParticles)
  canvas,          \* what the canvas shows: the fillRect calls since the last clear
  frameLog,        \* history: the steps of the last frame, in the order they ran
  lastPointer,     \* history: the last position a pointer event reported
  reinitSinceMove, \* history: initializeLogoState ran since that report
  scalarField,     \* contours.js: the field marchingSquares is given, <<>> when none
  segments,        \* contours.js: what marchingSquares returned, by threshold
  hoverZone        \* history: the pointer entered an interactive element and has not left it

vars == <<config, isRunning, isPaused, animationId, time, lastFrameTime, width,
          height, fbm, noiseField, particles, cols, rows, mouse, logoState,
          resizeTimeout, prefersReducedMotion, now, rect, pending, listeners,
          loads, canvas, frameLog, lastPointer, reinitSinceMove, scalarField,
          segments, hoverZone>>

-----------------------------------------------------------------------------
(* Bounds of the model *)

\* The host clock stops at this tick.
MaxNow == 3
\* At most this many logo loads are in flight at once.
MaxLoads == 2
\* The largest particle count a configuration asks for.
MaxParticles == 2

-----------------------------------------------------------------------------
(* JavaScript values *)

NaN == [nan |-> TRUE]
Undefined == [undef |-> TRUE]
Num(i) == [n |-> i]
IsNum(v) == DOMAIN v = {"n"}

\* obj.f: reading a property the object does not have gives undefined
Prop(obj, f) == IF f \in DOMAIN obj THEN obj[f] ELSE Undefined

\* a + b, a - b on numbers; NaN when an operand is undefined or NaN
JsAdd(a, b) == IF IsNum(a) /\ IsNum(b) THEN Num(a.n + b.n) ELSE NaN
JsSub(a, b) == IF IsNum(a) /\ IsNum(b) THEN Num(a.n - b.n) ELSE NaN

\* integer quotient truncated toward zero
Trunc(a, b) == IF a >= 0 THEN a \div b ELSE -((-a) \div b)

\* a * (q.num / q.den)
JsScale(a, q) == IF IsNum(a) THEN Num(Trunc(a.n * q.num, q.den)) ELSE NaN

\* Math.abs(a)
JsAbs(a) == IF IsNum(a) THEN Num(IF a.n < 0 THEN -a.n ELSE a.n) ELSE NaN

\* a < b: false when an operand is NaN
JsLess(a, b) == IsNum(a) /\ IsNum(b) /\ a.n < b.n

Min(a, b) == IF a < b THEN a ELSE b

\* Math.ceil(a / b) for a >= 0, b > 0
CeilDiv(a, b) == (a + b - 1) \div b

-----------------------------------------------------------------------------
(* The inputs the model draws from *)

\* Sizes the canvas element's bounding box takes.
CanvasSizes == {<<8, 4>>, <<4, 4>>}

\* Positions pointer events report, relative to the canvas.
PointerPoints == {<<0, 0>>, <<6, 2>>}

\* The interactive elements of the page ('.header-content a, .header-content button').
InteractiveElements == {"a", "button"}

\* One particle's random draws, as pairs of values of Math.random() in halves:
\* for its target (t) and for its start (s).
Draw == {[t |-> <<0, 0>>, s |-> <<1, 1>>], [t |-> <<1, 1>>, s |-> <<0, 0>>]}

\* The draws of one initialization, one per particle.
Draws == [1..MaxParticles -> Draw]

\* Math.random() * extent for a draw in halves
RandomIn(half, extent) == (half * extent) \div 2

\* The solid pixels extractParticlePositions can find in a decoded logo.
LogoPixels == {<<>>, <<[x |-> 2, y |-> 0], [x |-> 4, y |-> 2]>>}

-----------------------------------------------------------------------------
(* particles.js *)

\* 1.0 as an opacity, in tenths
OpacityOne == 10

\* isSettled's default threshold, 0.01
SettledThreshold == [num |-> 1, den |-> 100]

\* getSpringPreset: the spring parameters of a motion feel; breathAmplitude in tenths
getSpringPreset(feel) ==
  LET presets == [
        snappy |-> [springStrength |-> [num |-> 4, den |-> 100],
                    friction |-> [num |-> 95, den |-> 100], breathAmplitude |-> 3],
        smooth |-> [springStrength |-> [num |-> 2, den |-> 100],
                    friction |-> [num |-> 92, den |-> 100], breathAmplitude |-> 5],
        bouncy |-> [springStrength |-> [num |-> 25, den |-> 1000],
                    friction |-> [num |-> 88, den |-> 100], breathAmplitude |-> 8],
        heavy  |-> [springStrength |-> [num |-> 15, den |-> 1000],
                    friction |-> [num |-> 94, den |-> 100], breathAmplitude |-> 4]]
  IN IF feel \in DOMAIN presets THEN presets[feel] ELSE presets.smooth

\* new Particle(targetX, targetY, cfg): the fields the constructor sets.
\* It sets neither offsetX, offsetY nor targetOpacity.  size and color are
\* not modelled.  breathPhase is in quarter turns; the constructor draws it at
\* random, and the draw is 0 unless a specification sets another one.
Particle(targetX, targetY, cfg) ==
  [targetX |-> Num(targetX), targetY |-> Num(targetY),
   x |-> Num(cfg.startX), y |-> Num(cfg.startY),
   vx |-> Num(0), vy |-> Num(0),
   springStrength |-> cfg.springStrength, friction |-> cfg.friction,
   opacity |-> OpacityOne,
   breathAmplitude |-> cfg.breathAmplitude, breathPhase |-> 0,
   isRepelled |-> FALSE, repelForceX |-> Num(0), repelForceY |-> Num(0)]

\* Particle.isSettled(threshold)
ParticleIsSettled(p) ==
  LET velocityMag == JsAdd(JsAbs(p.vx), JsAbs(p.vy))
      distToTarget == JsAdd(JsAbs(JsSub(p.x, p.targetX)), JsAbs(JsSub(p.y, p.targetY)))
      below(v) == IsNum(v) /\ v.n * SettledThreshold.den < SettledThreshold.num
  IN below(velocityMag) /\ below(distToTarget)

\* floor of the square root
RECURSIVE IsqrtFrom(_, _)
IsqrtFrom(n, r) == IF (r + 1) * (r + 1) > n THEN r ELSE IsqrtFrom(n, r + 1)
Isqrt(n) == IsqrtFrom(n, 0)

\* Particle.applyRepelForce(mouseX, mouseY, radius, strength)
ParticleApplyRepelForce(p, mouseX, mouseY, radius, strength) ==
  LET dx == JsSub(p.x, Num(mouseX))
      dy == JsSub(p.y, Num(mouseY))
  IN IF ~(IsNum(dx) /\ IsNum(dy)) THEN p   \* NaN compares false
     ELSE LET distSq == dx.n * dx.n + dy.n * dy.n
              radiusSq == radius * radius
          IN IF distSq < radiusSq /\ distSq * 100 > 1
             THEN LET dist == Isqrt(distSq)
                      \* (d / dist) * (strength / (distSq + 0.01))
                      force(d) == Trunc(d * strength.num * 100,
                                        dist * strength.den * (distSq * 100 + 1))
                  IN [p EXCEPT !.repelForceX = Num(force(dx.n)),
                               !.repelForceY = Num(force(dy.n)),
                               !.isRepelled = TRUE]
             ELSE p

\* Math.cos and Math.sin of a phase in quarter turns
Cos4(phase) == CASE phase % 4 = 0 -> 1 [] phase % 4 = 2 -> -1 [] OTHER -> 0
Sin4(phase) == Cos4(phase + 3)

\* this.breathPhase += this.breathSpeed, when the breathing is applied; a
\* step of the phase is modelled as a quarter turn
BreathPhase(p, settled) ==
  IF settled /\ p.breathAmplitude > 0 THEN (p.breathPhase + 1) % 4 ELSE p.breathPhase

\* The breathing offset, (cos, sin)(phase) * amplitude, in whole units of
\* length (the amplitude is in tenths): with the amplitude of a preset, below
\* one pixel, it is 0 whole pixels.
BreathOffset(p, settled) ==
  IF settled /\ p.breathAmplitude > 0
  THEN [x |-> Trunc(Cos4(BreathPhase(p, settled)) * p.breathAmplitude, 10),
        y |-> Trunc(Sin4(BreathPhase(p, settled)) * p.breathAmplitude, 10)]
  ELSE [x |-> 0, y |-> 0]

\* Particle.update without the reset of the repel force at its end
ParticleUpdateKeepsRepelForce(p, settled) ==
  LET dx == JsSub(JsAdd(p.targetX, Num(BreathOffset(p, settled).x)), p.x)
      dy == JsSub(JsAdd(p.targetY, Num(BreathOffset(p, settled).y)), p.y)
      vx == JsScale(JsAdd(p.vx, JsAdd(JsScale(dx, p.springStrength), p.repelForceX)),
                    p.friction)
      vy == JsScale(JsAdd(p.vy, JsAdd(JsScale(dy, p.springStrength), p.repelForceY)),
                    p.friction)
  IN [p EXCEPT !.vx = vx, !.vy = vy,
               !.x = JsAdd(p.x, vx), !.y = JsAdd(p.y, vy),
               !.breathPhase = BreathPhase(p, settled)]

\* Particle.update(time, isSettled): the spring step.  It does not touch opacity.
ParticleUpdate(p, settled) ==
  LET effectiveTargetX == JsAdd(p.targetX, Num(BreathOffset(p, settled).x))
      effectiveTargetY == JsAdd(p.targetY, Num(BreathOffset(p, settled).y))
      dx == JsSub(effectiveTargetX, p.x)
      dy == JsSub(effectiveTargetY, p.y)
      totalForceX == JsAdd(JsScale(dx, p.springStrength), p.repelForceX)
      totalForceY == JsAdd(JsScale(dy, p.springStrength), p.repelForceY)
      vx == JsScale(JsAdd(p.vx, totalForceX), p.friction)
      vy == JsScale(JsAdd(p.vy, totalForceY), p.friction)
  IN [p EXCEPT !.vx = vx, !.vy = vy,
               !.x = JsAdd(p.x, vx), !.y = JsAdd(p.y, vy),
               !.breathPhase = BreathPhase(p, settled),
               !.repelForceX = Num(0), !.repelForceY = Num(0),
               !.isRepelled = FALSE]

\* initializeParticles(targetPositions, canvasBounds, physicsConfig): one
\* particle per target, scattered at a random start
initializeParticles(targetPositions, canvasBounds, physicsConfig, rnd) ==
  [i \in 1..Len(targetPositions) |->
     Particle(targetPositions[i].x, targetPositions[i].y,
              [startX |-> RandomIn(rnd[i].s[1], canvasBounds.width),
               startY |-> RandomIn(rnd[i].s[2], canvasBounds.height),
               springStrength |-> physicsConfig.springStrength,
               friction |-> physicsConfig.friction,
               breathAmplitude |-> physicsConfig.breathAmplitude])]

\* updateParticles(particles, time, mouseState); mouseState.active = FALSE is null
updateParticles(ps, mouseState) ==
  LET checkSampleSize == Min(50, Len(ps))
      settledCount == Cardinality({i \in 1..checkSampleSize : ParticleIsSettled(ps[i])})
      isSettled == settledCount * 10 > checkSampleSize * 8
      repel(p) == IF mouseState.active
                  THEN ParticleApplyRepelForce(p, mouseState.x, mouseState.y,
                                               mouseState.radius, mouseState.strength)
                  ELSE p
  IN [i \in 1..Len(ps) |-> ParticleUpdate(repel(ps[i]), isSettled)]

\* renderParticles(ctx, particles): globalAlpha is set to 1.0 once and every
\* particle is drawn with it; the particle's opacity is not read
renderParticles(ps) ==
  [i \in 1..Len(ps) |-> [x |-> ps[i].x, y |-> ps[i].y, alpha |-> OpacityOne]]

-----------------------------------------------------------------------------
(* spring.js *)

\* isAtRest's default precision, 0.01 px, in units of 1/100000 px
RestPrecision == 1000

\* springStep that leaves the particle where it is
springStepKeepsPosition(particle, dt) ==
  LET ax == JsScale(JsSub(particle.targetX, particle.x), particle.springStrength)
      ay == JsScale(JsSub(particle.targetY, particle.y), particle.springStrength)
  IN [particle EXCEPT !.vx = JsScale(JsAdd(particle.vx, ax), particle.friction),
                      !.vy = JsScale(JsAdd(particle.vy, ay), particle.friction)]

\* the default of springStep's dt, 1/60 s, in ms
DefaultDt == 16

\* springStep(particle, dt): dt is not used
springStep(particle, dt) ==
  LET dx == JsSub(particle.targetX, particle.x)
      dy == JsSub(particle.targetY, particle.y)
      ax == JsScale(dx, particle.springStrength)
      ay == JsScale(dy, particle.springStrength)
      vx == JsScale(JsAdd(particle.vx, ax), particle.friction)
      vy == JsScale(JsAdd(particle.vy, ay), particle.friction)
  IN [particle EXCEPT !.vx = vx, !.vy = vy,
                      !.x = JsAdd(particle.x, vx), !.y = JsAdd(particle.y, vy)]

\* applyRepulsion(particle, px, py, {radius, strength}): quadratic falloff,
\* added to the velocity; cos and sin of the angle are dx / distance and
\* dy / distance
applyRepulsion(particle, px, py, options) ==
  LET dx == JsSub(particle.x, Num(px))
      dy == JsSub(particle.y, Num(py))
  IN IF ~(IsNum(dx) /\ IsNum(dy))
     THEN [particle EXCEPT !.vx = NaN, !.vy = NaN]   \* NaN compares false
     ELSE LET distSq == dx.n * dx.n + dy.n * dy.n
              distance == Isqrt(distSq)
              push(d) == Trunc(d * (options.radius - distance) * (options.radius - distance)
                                 * options.strength.num,
                               distance * options.radius * options.radius
                                 * options.strength.den)
          IN IF distSq >= options.radius * options.radius \/ distSq = 0
             THEN particle
             ELSE [particle EXCEPT !.vx = JsAdd(@, Num(push(dx.n))),
                                   !.vy = JsAdd(@, Num(push(dy.n)))]

-----------------------------------------------------------------------------
(* contours.js.  Coordinates are exact fractions [num, den]; a fraction     *)
(* with den = 0 is the Infinity or NaN a division by zero gives.            *)

\* EDGE_TABLE with each saddle case joined by a single segment
EdgeTableSaddleAsOneSegment ==
  << <<>>, << <<3, 0>> >>, << <<0, 1>> >>, << <<3, 1>> >>, << <<1, 2>> >>,
     << <<3, 1>> >>, << <<0, 2>> >>, << <<3, 2>> >>, << <<2, 3>> >>,
     << <<2, 0>> >>, << <<0, 2>> >>, << <<2, 1>> >>, << <<1, 3>> >>,
     << <<1, 0>> >>, << <<0, 3>> >>, <<>> >>

\* EDGE_TABLE[caseIndex]: the pairs of edges to join; 0 = top, 1 = right,
\* 2 = bottom, 3 = left.  Entry k here is EDGE_TABLE[k - 1].
EDGE_TABLE ==
  << <<>>,                      \* 0
     << <<3, 0>> >>,            \* 1
     << <<0, 1>> >>,            \* 2
     << <<3, 1>> >>,            \* 3
     << <<1, 2>> >>,            \* 4
     << <<3, 0>>, <<1, 2>> >>,  \* 5
     << <<0, 2>> >>,            \* 6
     << <<3, 2>> >>,            \* 7
     << <<2, 3>> >>,            \* 8
     << <<2, 0>> >>,            \* 9
     << <<0, 1>>, <<2, 3>> >>,  \* 10
     << <<2, 1>> >>,            \* 11
     << <<1, 3>> >>,            \* 12
     << <<1, 0>> >>,            \* 13
     << <<0, 3>> >>,            \* 14
     <<>> >>                    \* 15

\* invLerp(a, b, v) = (v - a) / (b - a)
invLerp(a, b, v) == [num |-> v - a, den |-> b - a]

\* the whole number n as a fraction
Whole(n) == [num |-> n, den |-> 1]

\* x + t * size for a fraction t
Along(x, t, size) == [num |-> x * t.den + t.num * size, den |-> t.den]

\* getEdgePoint putting every point at the middle of its edge
getEdgePointAtMiddle(edge, x, y, size, tl, tr, br, bl, threshold) ==
  CASE edge = 0 -> <<Along(x, [num |-> 1, den |-> 2], size), Whole(y)>>
    [] edge = 1 -> <<Whole(x + size), Along(y, [num |-> 1, den |-> 2], size)>>
    [] edge = 2 -> <<Along(x, [num |-> 1, den |-> 2], size), Whole(y + size)>>
    [] edge = 3 -> <<Whole(x), Along(y, [num |-> 1, den |-> 2], size)>>
    [] OTHER -> <<Whole(x), Whole(y)>>

\* getEdgePoint(edge, x, y, size, tl, tr, br, bl, threshold)
getEdgePoint(edge, x, y, size, tl, tr, br, bl, threshold) ==
  CASE edge = 0 -> <<Along(x, invLerp(tl, tr, threshold), size), Whole(y)>>
    [] edge = 1 -> <<Whole(x + size), Along(y, invLerp(tr, br, threshold), size)>>
    [] edge = 2 -> <<Along(x, invLerp(bl, br, threshold), size), Whole(y + size)>>
    [] edge = 3 -> <<Whole(x), Along(y, invLerp(tl, bl, threshold), size)>>
    [] OTHER -> <<Whole(x), Whole(y)>>

\* marchingSquares, the body of its loops: the segments of the cell at row, col
cellSegments(field, nCols, row, col, threshold, cellSize) ==
  LET x == col * cellSize
      y == row * cellSize
      tl == field[row * nCols + col + 1]
      tr == field[row * nCols + col + 2]
      br == field[(row + 1) * nCols + col + 2]
      bl == field[(row + 1) * nCols + col + 1]
      caseIndex == (IF tl > threshold THEN 8 ELSE 0) + (IF tr > threshold THEN 4 ELSE 0)
                   + (IF br > threshold THEN 2 ELSE 0) + (IF bl > threshold THEN 1 ELSE 0)
      edges == EDGE_TABLE[caseIndex + 1]
  IN [k \in 1..Len(edges) |->
        <<getEdgePoint(edges[k][1], x, y, cellSize, tl, tr, br, bl, threshold),
          getEdgePoint(edges[k][2], x, y, cellSize, tl, tr, br, bl, threshold)>>]

\* the segments of the cells from the n-th on, in the order of the loops
RECURSIVE segmentsFrom(_, _, _, _, _, _)
segmentsFrom(n, field, nCols, nRows, threshold, cellSize) ==
  IF n >= (nRows - 1) * (nCols - 1) THEN <<>>
  ELSE cellSegments(field, nCols, n \div (nCols - 1), n % (nCols - 1), threshold, cellSize)
       \o segmentsFrom(n + 1, field, nCols, nRows, threshold, cellSize)

\* marchingSquares(field, cols, rows, threshold, cellSize)
marchingSquares(field, nCols, nRows, threshold, cellSize) ==
  segmentsFrom(0, field, nCols, nRows, threshold, cellSize)

-----------------------------------------------------------------------------
(* ambient.js: the state *)

\* Math.min(..., 0.1): the cap on a frame's delta time, 0.1 s, in ticks
DeltaCap == 2

\* The options createAmbientHeader is given, merged over DEFAULT_CONFIG.
\* timeSpeed is in time units per tick; logoSvgUrl is TRUE when a URL is set.
ConfigOptions ==
  {[gridSize |-> 4, particleCount |-> MaxParticles,
    mouseRadius |-> 3, mouseForce |-> [num |-> 1, den |-> 2],
    particleSpringFeel |-> "smooth", showContours |-> TRUE, showParticles |-> TRUE,
    timeSpeed |-> 1, logoSvgUrl |-> url, useSamplingDensity |-> 2,
    logoSpringStrength |-> [num |-> 1, den |-> 1],
    logoFriction |-> [num |-> 1, den |-> 2]] : url \in BOOLEAN}

\* The partial configurations updateConfig is called with.
ConfigUpdates == {[particleCount |-> 1]}

\* The listeners play() registers and destroy() removes.
PlayListeners ==
  {<<"window", "resize">>, <<"canvas", "mousemove">>, <<"canvas", "mouseleave">>,
   <<"canvas", "touchmove">>, <<"canvas", "touchend">>}
  \cup {<<e, t>> : e \in InteractiveElements, t \in {"mouseenter", "mouseleave"}}

BlankCanvas == [contours |-> FALSE, dots |-> <<>>]

\* The current state as one record.
State ==
  [config |-> config, isRunning |-> isRunning, isPaused |-> isPaused,
   animationId |-> animationId, time |-> time, lastFrameTime |-> lastFrameTime,
   width |-> width, height |-> height, fbm |-> fbm, noiseField |-> noiseField,
   particles |-> particles, cols |-> cols, rows |-> rows, mouse |-> mouse,
   logoState |-> logoState, resizeTimeout |-> resizeTimeout,
   prefersReducedMotion |-> prefersReducedMotion, now |-> now, rect |-> rect,
   pending |-> pending, listeners |-> listeners, loads |-> loads,
   canvas |-> canvas, frameLog |-> frameLog, lastPointer |-> lastPointer,
   reinitSinceMove |-> reinitSinceMove, scalarField |-> scalarField,
   segments |-> segments, hoverZone |-> hoverZone]

\* The next state is the record s.
Becomes(s) ==
  /\ config' = s.config /\ isRunning' = s.isRunning /\ isPaused' = s.isPaused
  /\ animationId' = s.animationId /\ time' = s.time
  /\ lastFrameTime' = s.lastFrameTime /\ width' = s.width /\ height' = s.height
  /\ fbm' = s.fbm /\ noiseField' = s.noiseField /\ particles' = s.particles
  /\ cols' = s.cols /\ rows' = s.rows /\ mouse' = s.mouse
  /\ logoState' = s.logoState /\ resizeTimeout' = s.resizeTimeout
  /\ prefersReducedMotion' = s.prefersReducedMotion /\ now' = s.now
  /\ rect' = s.rect /\ pending' = s.pending /\ listeners' = s.listeners
  /\ loads' = s.loads /\ canvas' = s.canvas /\ frameLog' = s.frameLog
  /\ lastPointer' = s.lastPointer /\ reinitSinceMove' = s.reinitSinceMove
  /\ scalarField' = s.scalarField /\ segments' = s.segments
  /\ hoverZone' = s.hoverZone

\* createAmbientHeader, lines 70-120: the closure state before play()
Created(cfg, reduced, box) ==
  [config |-> cfg, isRunning |-> FALSE, isPaused |-> FALSE, animationId |-> 0,
   time |-> 0, lastFrameTime |-> 0, width |-> 0, height |-> 0,
   fbm |-> FALSE, noiseField |-> -1, particles |-> <<>>, cols |-> 0, rows |-> 0,
   mouse |-> [x |-> -1000, y |-> -1000, targetX |-> -1000, targetY |-> -1000,
              isActive |-> FALSE],
   logoState |-> [centerX |-> 0, centerY |-> 0, targetCenterX |-> 0,
                  targetCenterY |-> 0, velocityX |-> 0, velocityY |-> 0,
                  initialCenterX |-> 0, initialCenterY |-> 0,
                  springStrength |-> cfg.logoSpringStrength,
                  friction |-> cfg.logoFriction, isFollowingMouse |-> FALSE],
   resizeTimeout |-> FALSE, prefersReducedMotion |-> reduced, now |-> 0,
   rect |-> box, pending |-> {}, listeners |-> {}, loads |-> <<>>,
   canvas |-> BlankCanvas, frameLog |-> <<>>, lastPointer |-> <<-1000, -1000>>,
   reinitSinceMove |-> FALSE, scalarField |-> <<>>, segments |-> <<>>,
   hoverZone |-> FALSE]

-----------------------------------------------------------------------------
(* ambient.js: the handlers *)

\* requestAnimationFrame: the handle of the new callback.  Handles are only
\* compared for equality, so the new one is the least handle that neither a
\* pending callback nor animationId holds.
NewHandle(s) ==
  CHOOSE i \in 1..(Cardinality(s.pending) + 2) : i \notin s.pending \cup {s.animationId}

\* animationId = requestAnimationFrame(animate)
requestFrame(s) ==
  LET id == NewHandle(s)
  IN [s EXCEPT !.pending = @ \cup {id}, !.animationId = id]

\* if (animationId) { cancelAnimationFrame(animationId); animationId = null; }
cancelFrame(s) ==
  IF s.animationId # 0
  THEN [s EXCEPT !.pending = @ \ {s.animationId}, !.animationId = 0]
  ELSE s

\* setupCanvas: the size of the bounding box; setting canvas.width clears the canvas
setupCanvas(s) ==
  [s EXCEPT !.width = s.rect[1], !.height = s.rect[2], !.canvas = BlankCanvas]

\* initializeLogoState: everything back to the canvas center
initializeLogoState(s) ==
  [s EXCEPT !.logoState = [@ EXCEPT !.centerX = s.width \div 2,
                                    !.centerY = s.height \div 2,
                                    !.targetCenterX = s.width \div 2,
                                    !.targetCenterY = s.height \div 2,
                                    !.initialCenterX = s.width \div 2,
                                    !.initialCenterY = s.height \div 2,
                                    !.velocityX = 0, !.velocityY = 0,
                                    !.isFollowingMouse = FALSE],
            !.reinitSinceMove = TRUE]

\* createRandomPositions: particleCount random targets on the canvas
createRandomPositions(s, rnd) ==
  [i \in 1..s.config.particleCount |->
     [x |-> RandomIn(rnd[i].t[1], s.width), y |-> RandomIn(rnd[i].t[2], s.height)]]

\* loadLogoAndInitParticles up to its first await: the load is in flight.
\* stale (history) marks a load that a later initialization or destroy() followed.
loadLogoAndInitParticles(s, physicsConfig) ==
  [s EXCEPT !.loads = Append(@, [stage |-> "fetch", physicsConfig |-> physicsConfig,
                                 stale |-> FALSE])]

\* initializeSystems
initializeSystems(s, rnd) ==
  LET c == CeilDiv(s.width, s.config.gridSize) + 1
      r == CeilDiv(s.height, s.config.gridSize) + 1
      s1 == [s EXCEPT !.fbm = TRUE, !.cols = c, !.rows = r, !.noiseField = c * r,
                      !.loads = [i \in 1..Len(@) |-> [@[i] EXCEPT !.stale = TRUE]]]
      s2 == initializeLogoState(s1)
      physicsConfig == getSpringPreset(s.config.particleSpringFeel)
  IN IF s.config.logoSvgUrl
     THEN loadLogoAndInitParticles(s2, physicsConfig)
     ELSE [s2 EXCEPT !.particles =
             initializeParticles(createRandomPositions(s2, rnd),
                                 [width |-> s2.width, height |-> s2.height],
                                 physicsConfig, rnd)]

\* the sequence q without its i-th element
Without(q, i) == [j \in 1..(Len(q) - 1) |-> IF j < i THEN q[j] ELSE q[j + 1]]

\* loadLogoAndInitParticles, the catch block: random particles
loadFailed(s, i, rnd) ==
  [s EXCEPT !.particles =
              initializeParticles(createRandomPositions(s, rnd),
                                  [width |-> s.width, height |-> s.height],
                                  s.loads[i].physicsConfig, rnd),
            !.loads = Without(@, i)]

\* img.onload: particles at the logo's solid pixels, or random ones when it has none
imageLoaded(s, i, pixels, rnd) ==
  [s EXCEPT !.particles =
              initializeParticles(IF Len(pixels) > 0 THEN pixels
                                  ELSE createRandomPositions(s, rnd),
                                  [width |-> s.width, height |-> s.height],
                                  s.loads[i].physicsConfig, rnd),
            !.loads = Without(@, i)]

\* the image fails to decode: no handler is registered for it
imageFailed(s, i) == [s EXCEPT !.loads = Without(@, i)]

\* DEFAULT_CONFIG.baseFrequency, 0.008, in thousandths
BaseFrequency == 8

\* updateNoiseField(currentTime): the arguments fbm is called with for the
\* cell at each index, in thousandths.  currentTime is not used.
noiseSamples(s, currentTime) ==
  [index \in 0..(s.cols * s.rows - 1) |->
     LET i == index % s.cols
         j == index \div s.cols
     IN <<i * s.config.gridSize * BaseFrequency, j * s.config.gridSize * BaseFrequency>>]

\* updateLogoPosition with the friction applied before the force is added
updateLogoPositionFrictionFirst(s) ==
  LET l == s.logoState
      step(pos, vel, target) ==
        LET force == Trunc((target - pos) * l.springStrength.num, l.springStrength.den)
            v == Trunc(vel * l.friction.num, l.friction.den) + force
        IN [vel |-> v, pos |-> pos + v]
      sx == step(l.centerX, l.velocityX, l.targetCenterX)
      sy == step(l.centerY, l.velocityY, l.targetCenterY)
  IN [s EXCEPT !.logoState = [@ EXCEPT !.velocityX = sx.vel, !.velocityY = sy.vel,
                                       !.centerX = sx.pos, !.centerY = sy.pos],
               !.frameLog = Append(@, "advance")]

\* updateLogoPosition: one spring step of the logo center toward its target
updateLogoPosition(s) ==
  LET l == s.logoState
      step(pos, vel, target) ==
        LET force == Trunc((target - pos) * l.springStrength.num, l.springStrength.den)
            v == Trunc((vel + force) * l.friction.num, l.friction.den)
        IN [vel |-> v, pos |-> pos + v]
      sx == step(l.centerX, l.velocityX, l.targetCenterX)
      sy == step(l.centerY, l.velocityY, l.targetCenterY)
  IN [s EXCEPT !.logoState = [@ EXCEPT !.velocityX = sx.vel, !.velocityY = sy.vel,
                                       !.centerX = sx.pos, !.centerY = sy.pos],
               !.frameLog = Append(@, "advance")]

\* updateParticleTargets that also brings every particle to rest
updateParticleTargetsResetsVelocity(s) ==
  [s EXCEPT !.particles =
     [i \in 1..Len(s.particles) |->
        [s.particles[i] EXCEPT
           !.targetX = JsAdd(Num(s.logoState.centerX), Prop(s.particles[i], "offsetX")),
           !.targetY = JsAdd(Num(s.logoState.centerY), Prop(s.particles[i], "offsetY")),
           !.vx = Num(0), !.vy = Num(0)]],
            !.frameLog = Append(@, "retarget")]

\* updateParticleTargets: target = logo center + the particle's offsetX, offsetY
updateParticleTargets(s) ==
  [s EXCEPT !.particles =
     [i \in 1..Len(s.particles) |->
        [s.particles[i] EXCEPT
           !.targetX = JsAdd(Num(s.logoState.centerX), Prop(s.particles[i], "offsetX")),
           !.targetY = JsAdd(Num(s.logoState.centerY), Prop(s.particles[i], "offsetY"))]],
            !.frameLog = Append(@, "retarget")]

\* the particle step of animate: mouseState and updateParticles
updateParticlesStep(s) ==
  LET mouseState == [active |-> s.mouse.isActive, x |-> s.mouse.x, y |-> s.mouse.y,
                     radius |-> s.config.mouseRadius, strength |-> s.config.mouseForce]
  IN [s EXCEPT !.particles = updateParticles(@, mouseState),
               !.frameLog = Append(@, "integrate")]

\* renderFrame: clear, contours, then the particles
renderFrame(s) ==
  [s EXCEPT !.canvas =
     [contours |-> s.config.showContours,
      dots |-> IF s.config.showParticles /\ Len(s.particles) > 0
               THEN renderParticles(s.particles) ELSE <<>>],
            !.frameLog = Append(@, "render")]

\* frameStep with the particles integrated before they are retargeted
frameStepIntegrateFirst(s, currentTime) ==
  LET deltaTime == Min(currentTime - s.lastFrameTime, DeltaCap)
      timeStep == IF s.prefersReducedMotion THEN 0 ELSE s.config.timeSpeed
      s1 == [s EXCEPT !.lastFrameTime = currentTime,
                      !.time = @ + deltaTime * timeStep,
                      !.frameLog = <<>>]
  IN IF ~s1.fbm /\ s1.cols * s1.rows > 0 THEN s1
     ELSE requestFrame(renderFrame(updateParticleTargets(
            updateParticlesStep(updateLogoPosition(s1)))))

\* if (!isRunning || isPaused) return;
animateRuns(s) == s.isRunning /\ ~s.isPaused

\* the body of animate after its guard, for the timestamp currentTime
frameStep(s, currentTime) ==
  LET deltaTime == Min(currentTime - s.lastFrameTime, DeltaCap)
      timeStep == IF s.prefersReducedMotion THEN 0 ELSE s.config.timeSpeed
      s1 == [s EXCEPT !.lastFrameTime = currentTime,
                      !.time = @ + deltaTime * timeStep,
                      !.frameLog = <<>>]
  IN \* updateNoiseField calls fbm for every cell: a null fbm throws there
     IF ~s1.fbm /\ s1.cols * s1.rows > 0 THEN s1
     ELSE requestFrame(renderFrame(updateParticlesStep(
            updateParticleTargets(updateLogoPosition(s1)))))

\* animate(currentTime)
animate(s, currentTime) == IF animateRuns(s) THEN frameStep(s, currentTime) ELSE s

\* handleResize: restart the debounce timer
handleResize(s) == [s EXCEPT !.resizeTimeout = TRUE]

\* the debounced body of handleResize
resizeTimerFired(s, rnd) ==
  LET s1 == setupCanvas([s EXCEPT !.resizeTimeout = FALSE])
      s2 == [s1 EXCEPT !.logoState = [@ EXCEPT !.initialCenterX = s1.width \div 2,
                                               !.initialCenterY = s1.height \div 2]]
      s3 == IF ~s2.logoState.isFollowingMouse
            THEN [s2 EXCEPT !.logoState = [@ EXCEPT !.centerX = s2.width \div 2,
                                                    !.centerY = s2.height \div 2,
                                                    !.targetCenterX = s2.width \div 2,
                                                    !.targetCenterY = s2.height \div 2]]
            ELSE s2
  IN initializeSystems(s3, rnd)

\* handleMouseMove; handleTouchMove does the same with the first touch
handleMouseMove(s, p) ==
  [s EXCEPT !.mouse = [x |-> p[1], y |-> p[2], targetX |-> p[1], targetY |-> p[2],
                       isActive |-> TRUE],
            !.logoState = [@ EXCEPT !.targetCenterX = p[1], !.targetCenterY = p[2],
                                    !.isFollowingMouse = TRUE],
            !.lastPointer = p, !.reinitSinceMove = FALSE]

handleTouchMove(s, p) == handleMouseMove(s, p)

\* handleMouseLeave sending the logo back to the canvas center
handleMouseLeaveSnapBack(s) ==
  [s EXCEPT !.mouse = [x |-> -1000, y |-> -1000, targetX |-> -1000,
                       targetY |-> -1000, isActive |-> FALSE],
            !.logoState = [@ EXCEPT !.isFollowingMouse = FALSE,
                                    !.targetCenterX = s.logoState.initialCenterX,
                                    !.targetCenterY = s.logoState.initialCenterY]]

\* handleMouseLeave: the logo target is left where it is
handleMouseLeave(s) ==
  [s EXCEPT !.mouse = [x |-> -1000, y |-> -1000, targetX |-> -1000,
                       targetY |-> -1000, isActive |-> FALSE],
            !.logoState = [@ EXCEPT !.isFollowingMouse = FALSE]]

handleTouchEnd(s) == handleMouseLeave(s)

\* obj.f = v, also when obj has no property f yet
SetProp(obj, f, v) == [k \in DOMAIN obj \cup {f} |-> IF k = f THEN v ELSE obj[k]]

\* particle.targetOpacity = v for all particles
setTargetOpacity(s, v) ==
  [s EXCEPT !.particles = [i \in 1..Len(@) |-> SetProp(@[i], "targetOpacity", v)]]

\* handleInteractiveEnter that also stops the logo where it is
handleInteractiveEnterStopsLogo(s) ==
  LET s1 == setTargetOpacity(s, 0)
  IN [s1 EXCEPT !.logoState = [@ EXCEPT !.velocityX = 0, !.velocityY = 0,
                                        !.targetCenterX = s.logoState.centerX,
                                        !.targetCenterY = s.logoState.centerY,
                                        !.isFollowingMouse = FALSE]]

\* handleInteractiveEnter
handleInteractiveEnter(s) == setTargetOpacity(s, 0)

\* handleInteractiveLeave without the test of mouse.isActive
handleInteractiveLeaveAlwaysFollows(s) ==
  LET s1 == setTargetOpacity(s, OpacityOne)
  IN [s1 EXCEPT !.logoState = [@ EXCEPT !.targetCenterX = s1.mouse.x,
                                        !.targetCenterY = s1.mouse.y,
                                        !.isFollowingMouse = TRUE]]

\* handleInteractiveLeave
handleInteractiveLeave(s) ==
  LET s1 == setTargetOpacity(s, OpacityOne)
  IN IF s1.mouse.isActive
     THEN [s1 EXCEPT !.logoState = [@ EXCEPT !.targetCenterX = s1.mouse.x,
                                             !.targetCenterY = s1.mouse.y,
                                             !.isFollowingMouse = TRUE]]
     ELSE s1

\* play without its test of isRunning
playWithoutGuard(s, rnd) ==
  LET s1 == [s EXCEPT !.isRunning = TRUE, !.isPaused = FALSE,
                      !.lastFrameTime = s.now]
      s2 == initializeSystems(setupCanvas(s1), rnd)
      s3 == [s2 EXCEPT !.listeners = @ \cup PlayListeners]
  IN requestFrame(s3)

\* play
play(s, rnd) ==
  IF s.isRunning THEN s
  ELSE LET s1 == [s EXCEPT !.isRunning = TRUE, !.isPaused = FALSE,
                           !.lastFrameTime = s.now]
           s2 == initializeSystems(setupCanvas(s1), rnd)
           s3 == [s2 EXCEPT !.listeners = @ \cup PlayListeners]
       IN requestFrame(s3)

\* pause leaving the requested callback in the queue
pauseKeepsCallback(s) == [s EXCEPT !.isPaused = TRUE]

\* pause
pause(s) == cancelFrame([s EXCEPT !.isPaused = TRUE])

\* resume keeping the baseline of the last frame before the pause
resumeKeepsBaseline(s) ==
  IF ~s.isRunning \/ ~s.isPaused THEN s
  ELSE requestFrame([s EXCEPT !.isPaused = FALSE])

\* resume
resume(s) ==
  IF ~s.isRunning \/ ~s.isPaused THEN s
  ELSE requestFrame([s EXCEPT !.isPaused = FALSE, !.lastFrameTime = s.now])

\* togglePause
togglePause(s) == IF s.isPaused THEN resume(s) ELSE pause(s)

\* newConfig.f is truthy
Truthy(newConfig, f) == f \in DOMAIN newConfig /\ newConfig[f] # 0

\* updateConfig(newConfig)
updateConfig(s, newConfig, rnd) ==
  LET s1 == [s EXCEPT !.config = [k \in DOMAIN @ |->
                                    IF k \in DOMAIN newConfig THEN newConfig[k] ELSE @[k]]]
      s2 == IF "logoSpringStrength" \in DOMAIN newConfig
            THEN [s1 EXCEPT !.logoState.springStrength = newConfig.logoSpringStrength]
            ELSE s1
      s3 == IF "logoFriction" \in DOMAIN newConfig
            THEN [s2 EXCEPT !.logoState.friction = newConfig.logoFriction]
            ELSE s2
  IN IF \/ Truthy(newConfig, "gridSize") \/ Truthy(newConfig, "particleCount")
        \/ "particleSpringFeel" \in DOMAIN newConfig
     THEN initializeSystems(s3, rnd)
     ELSE s3

\* destroy leaving the touchend listener on the canvas
destroyKeepsTouchEnd(s) ==
  LET s1 == cancelFrame([s EXCEPT !.isRunning = FALSE])
  IN [s1 EXCEPT !.listeners = @ \ (PlayListeners \ {<<"canvas", "touchend">>}),
                !.canvas = BlankCanvas,
                !.particles = <<>>, !.noiseField = -1, !.fbm = FALSE,
                !.loads = [i \in 1..Len(@) |-> [@[i] EXCEPT !.stale = TRUE]]]

\* destroy
destroy(s) ==
  LET s1 == cancelFrame([s EXCEPT !.isRunning = FALSE])
  IN [s1 EXCEPT !.listeners = @ \ PlayListeners,
                !.canvas = BlankCanvas,
                !.particles = <<>>, !.noiseField = -1, !.fbm = FALSE,
                !.loads = [i \in 1..Len(@) |-> [@[i] EXCEPT !.stale = TRUE]]]

-----------------------------------------------------------------------------
(* The state machine *)

\* The draws of an initialization that creates n random particles.
DrawsFor(n) ==
  {d \in Draws : \A i \in 1..MaxParticles : i > n => d[i] = [t |-> <<0, 0>>, s |-> <<1, 1>>]}

\* An initialization may start a load only while fewer than MaxLoads are in flight.
CanInit == ~config.logoSvgUrl \/ Len(loads) < MaxLoads

\* The random particles initializeSystems creates under the configuration cfg.
InitDraws(cfg) == DrawsFor(IF cfg.logoSvgUrl THEN 0 ELSE cfg.particleCount)

\* The state is the record s.
Is(s) ==
  /\ config = s.config /\ isRunning = s.isRunning /\ isPaused = s.isPaused
  /\ animationId = s.animationId /\ time = s.time
  /\ lastFrameTime = s.lastFrameTime /\ width = s.width /\ height = s.height
  /\ fbm = s.fbm /\ noiseField = s.noiseField /\ particles = s.particles
  /\ cols = s.cols /\ rows = s.rows /\ mouse = s.mouse
  /\ logoState = s.logoState /\ resizeTimeout = s.resizeTimeout
  /\ prefersReducedMotion = s.prefersReducedMotion /\ now = s.now
  /\ rect = s.rect /\ pending = s.pending /\ listeners = s.listeners
  /\ loads = s.loads /\ canvas = s.canvas /\ frameLog = s.frameLog
  /\ lastPointer = s.lastPointer /\ reinitSinceMove = s.reinitSinceMove
  /\ scalarField = s.scalarField /\ segments = s.segments
  /\ hoverZone = s.hoverZone

\* createAmbientHeader: the closure state, then play() unless the user
\* prefers reduced motion
Init ==
  \E cfg \in ConfigOptions, reduced \in BOOLEAN, box \in CanvasSizes :
    \E rnd \in InitDraws(cfg) :
      Is(IF reduced THEN Created(cfg, reduced, box)
         ELSE play(Created(cfg, reduced, box), rnd))

\* time passes
Tick == now < MaxNow /\ Becomes([State EXCEPT !.now = @ + 1])

\* the host runs the frame callback id with the current time
FrameCallback(id) ==
  /\ id \in pending
  /\ Becomes(animate([State EXCEPT !.pending = @ \ {id}], now))

\* the window is resized and the canvas box becomes box
WindowResize(box) ==
  LET s == [State EXCEPT !.rect = box]
  IN Becomes(IF <<"window", "resize">> \in listeners THEN handleResize(s) ELSE s)

\* the debounce timer of handleResize fires; rnd is what Math.random() returns
ResizeTimerWith(rnd) ==
  resizeTimeout /\ CanInit /\ Becomes(resizeTimerFired(State, rnd))

ResizeTimer == \E rnd \in InitDraws(config) : ResizeTimerWith(rnd)

MouseMove(p) ==
  <<"canvas", "mousemove">> \in listeners /\ Becomes(handleMouseMove(State, p))

MouseLeave ==
  <<"canvas", "mouseleave">> \in listeners /\ Becomes(handleMouseLeave(State))

TouchMove(p) ==
  <<"canvas", "touchmove">> \in listeners /\ Becomes(handleTouchMove(State, p))

TouchEnd ==
  <<"canvas", "touchend">> \in listeners /\ Becomes(handleTouchEnd(State))

InteractiveEnter(e) ==
  /\ <<e, "mouseenter">> \in listeners
  /\ Becomes([handleInteractiveEnter(State) EXCEPT !.hoverZone = TRUE])

InteractiveLeave(e) ==
  /\ <<e, "mouseleave">> \in listeners
  /\ Becomes([handleInteractiveLeave(State) EXCEPT !.hoverZone = FALSE])

\* play(); rnd is what Math.random() returns
PlayWith(rnd) == CanInit /\ Becomes(play(State, rnd))

Play == \E rnd \in InitDraws(config) : PlayWith(rnd)

Pause == Becomes(pause(State))

Resume == Becomes(resume(State))

TogglePause == Becomes(togglePause(State))

UpdateConfig(newConfig) ==
  LET merged == [k \in DOMAIN config |->
                   IF k \in DOMAIN newConfig THEN newConfig[k] ELSE config[k]]
  IN /\ CanInit
     /\ \E rnd \in InitDraws(merged) : Becomes(updateConfig(State, newConfig, rnd))

Destroy == Becomes(destroy(State))

\* fetch() resolves with a response
FetchResolves(i) ==
  /\ loads[i].stage = "fetch"
  /\ Becomes([State EXCEPT !.loads[i].stage = "text"])

\* fetch() rejects
FetchRejects(i) ==
  /\ loads[i].stage = "fetch"
  /\ \E rnd \in DrawsFor(config.particleCount) : Becomes(loadFailed(State, i, rnd))

\* response.text() resolves and the image starts to decode
TextResolves(i) ==
  /\ loads[i].stage = "text"
  /\ Becomes([State EXCEPT !.loads[i].stage = "image"])

\* the body is unusable: response.text() rejects or btoa throws
BodyUnusable(i) ==
  /\ loads[i].stage = "text"
  /\ \E rnd \in DrawsFor(config.particleCount) : Becomes(loadFailed(State, i, rnd))

\* the image is decoded: img.onload runs
ImageLoads(i) ==
  /\ loads[i].stage = "image"
  /\ \E pixels \in LogoPixels :
       \E rnd \in DrawsFor(IF Len(pixels) > 0 THEN Len(pixels) ELSE config.particleCount) :
         Becomes(imageLoaded(State, i, pixels, rnd))

\* the image fails to decode
ImageFails(i) ==
  /\ loads[i].stage = "image"
  /\ Becomes(imageFailed(State, i))

Next ==
  \/ Tick
  \/ \E id \in pending : FrameCallback(id)
  \/ \E box \in CanvasSizes : WindowResize(box)
  \/ ResizeTimer
  \/ \E p \in PointerPoints : MouseMove(p)
  \/ MouseLeave
  \/ \E p \in PointerPoints : TouchMove(p)
  \/ TouchEnd
  \/ \E e \in InteractiveElements : InteractiveEnter(e)
  \/ \E e \in InteractiveElements : InteractiveLeave(e)
  \/ Play
  \/ Pause
  \/ Resume
  \/ TogglePause
  \/ \E newConfig \in ConfigUpdates : UpdateConfig(newConfig)
  \/ Destroy
  \/ \E i \in 1..Len(loads) : FetchResolves(i)
  \/ \E i \in 1..Len(loads) : FetchRejects(i)
  \/ \E i \in 1..Len(loads) : TextResolves(i)
  \/ \E i \in 1..Len(loads) : BodyUnusable(i)
  \/ \E i \in 1..Len(loads) : ImageLoads(i)
  \/ \E i \in 1..Len(loads) : ImageFails(i)

Spec == Init /\ [][Next]_vars

-----------------------------------------------------------------------------
(* Parts of the state machine: the events of one concern, from one point   *)
(* and one canvas size where the position is not what is at stake.         *)

\* The program with random particles (no logo), started by its constructor.
InitRandom ==
  \E cfg \in {c \in ConfigOptions : ~c.logoSvgUrl}, box \in {<<8, 4>>} :
    \E rnd \in InitDraws(cfg) : Is(play(Created(cfg, FALSE, box), rnd))

\* frames, pointer, interactive zones and resizes
NextPointer ==
  \/ \E id \in pending : FrameCallback(id)
  \/ \E p \in PointerPoints : MouseMove(p)
  \/ MouseLeave
  \/ \E p \in PointerPoints : TouchMove(p)
  \/ TouchEnd
  \/ \E e \in InteractiveElements : InteractiveEnter(e)
  \/ \E e \in InteractiveElements : InteractiveLeave(e)
  \/ \E box \in CanvasSizes : WindowResize(box)
  \/ ResizeTimer

SpecPointer == InitRandom /\ [][NextPointer]_vars

\* The program with random particles, as its constructor leaves it: playing,
\* or not started when the user prefers reduced motion.  The particles'
\* places are not at stake here: Math.random() returns one value.
InitLifecycle ==
  \E cfg \in {c \in ConfigOptions : ~c.logoSvgUrl}, reduced \in BOOLEAN :
    \E rnd \in DrawsFor(0) :
      Is(IF reduced THEN Created(cfg, reduced, <<8, 4>>)
         ELSE play(Created(cfg, reduced, <<8, 4>>), rnd))

\* time, frames, the controller's calls, and input and resize events
NextLifecycle ==
  \/ Tick
  \/ \E id \in pending : FrameCallback(id)
  \/ \E rnd \in DrawsFor(0) : PlayWith(rnd)
  \/ Pause
  \/ Resume
  \/ TogglePause
  \/ Destroy
  \/ MouseMove(<<6, 2>>)
  \/ MouseLeave
  \/ \E e \in {"button"} : InteractiveEnter(e)
  \/ \E e \in {"button"} : InteractiveLeave(e)
  \/ WindowResize(<<4, 4>>)
  \/ \E rnd \in DrawsFor(0) : ResizeTimerWith(rnd)

SpecLifecycle == InitLifecycle /\ [][NextLifecycle]_vars

\* updateConfig(newConfig) where Math.random() returns one value
UpdateConfigWith(newConfig, rnd) == CanInit /\ Becomes(updateConfig(State, newConfig, rnd))

\* time, frames, every call of the controller, and resizes
NextController ==
  \/ Tick
  \/ \E id \in pending : FrameCallback(id)
  \/ \E rnd \in DrawsFor(0) : PlayWith(rnd)
  \/ Pause
  \/ Resume
  \/ TogglePause
  \/ Destroy
  \/ \E newConfig \in ConfigUpdates, rnd \in DrawsFor(0) : UpdateConfigWith(newConfig, rnd)
  \/ WindowResize(<<4, 4>>)
  \/ \E rnd \in DrawsFor(0) : ResizeTimerWith(rnd)

SpecController == InitLifecycle /\ [][NextController]_vars

\* The program with a logo URL, started by its constructor: a load is in flight.
InitLogo ==
  \E cfg \in {c \in ConfigOptions : c.logoSvgUrl} :
    \E rnd \in InitDraws(cfg) : Is(play(Created(cfg, FALSE, <<8, 4>>), rnd))

\* the logo load's outcomes, frames, and what reinitializes or destroys
NextLoad ==
  \/ \E i \in 1..Len(loads) : FetchResolves(i)
  \/ \E i \in 1..Len(loads) : FetchRejects(i)
  \/ \E i \in 1..Len(loads) : TextResolves(i)
  \/ \E i \in 1..Len(loads) : BodyUnusable(i)
  \/ \E i \in 1..Len(loads) : ImageLoads(i)
  \/ \E i \in 1..Len(loads) : ImageFails(i)
  \/ \E id \in pending : FrameCallback(id)
  \/ WindowResize(<<4, 4>>)
  \/ ResizeTimer
  \/ \E newConfig \in ConfigUpdates : UpdateConfig(newConfig)
  \/ Destroy
  \/ Play

SpecLoad == InitLogo /\ [][NextLoad]_vars

\* The structural values updateConfig is called with: a particle count (0 is
\* a valid one), a sampling density, a grid cell size.
StructuralUpdates ==
  {[particleCount |-> 0], [particleCount |-> 1], [useSamplingDensity |-> 1],
   [gridSize |-> 2]}

\* frames, pointer moves and structural calls of updateConfig
NextConfig ==
  \/ \E id \in pending : FrameCallback(id)
  \/ \E p \in PointerPoints : MouseMove(p)
  \/ \E newConfig \in StructuralUpdates : UpdateConfig(newConfig)

SpecConfig == InitRandom /\ [][NextConfig]_vars

\* Options and updates with a value that is not valid: a stiffness that is
\* negative or zero, a damping of 0 or of 1.5, a negative pointer radius.
InvalidOptions ==
  {[logoSpringStrength |-> [num |-> -1, den |-> 1]],
   [logoSpringStrength |-> [num |-> 0, den |-> 1]],
   [logoFriction |-> [num |-> 0, den |-> 1]],
   [logoFriction |-> [num |-> 3, den |-> 2]],
   [mouseRadius |-> -3]}

\* Valid ones: the default logo stiffness, and a pointer radius of 0
ValidOptions == {[logoSpringStrength |-> [num |-> 15, den |-> 1000]], [mouseRadius |-> 0]}

\* { ...DEFAULT_CONFIG, ...options }
Merged(cfg, options) ==
  [k \in DOMAIN cfg |-> IF k \in DOMAIN options THEN options[k] ELSE cfg[k]]

\* createAmbientHeader(canvas, options) with options of either kind; it plays
InitOptions ==
  \E cfg \in {c \in ConfigOptions : ~c.logoSvgUrl},
     options \in InvalidOptions \cup ValidOptions :
    \E rnd \in DrawsFor(0) :
      Is(play(Created(Merged(cfg, options), FALSE, <<8, 4>>), rnd))

\* updateConfig(newConfig); none of these values reinitializes
UpdateOptions(newConfig) ==
  \E rnd \in DrawsFor(0) : Becomes(updateConfig(State, newConfig, rnd))

\* frames, time, pause and resume, and calls of updateConfig of either kind
NextOptions ==
  \/ Tick
  \/ \E id \in pending : FrameCallback(id)
  \/ Pause
  \/ Resume
  \/ \E newConfig \in InvalidOptions \cup ValidOptions : UpdateOptions(newConfig)

SpecOptions == InitOptions /\ [][NextOptions]_vars

-----------------------------------------------------------------------------
(* The steps of a frame as functions, applied to arguments drawn from       *)
(* bounded sets.                                                            *)

\* The offsets a particle object can carry: none, as the constructor leaves
\* it, or a pair of numbers.
OffsetOptions == {<<>>, <<-2, 0>>, <<3, 1>>}

\* A particle in motion: at <<1, 1>> with target <<0, 0>>, velocity v and offsets o.
MovingParticle(v, o) ==
  LET p == [Particle(0, 0, [startX |-> 1, startY |-> 1] @@ getSpringPreset("smooth"))
              EXCEPT !.vx = Num(v[1]), !.vy = Num(v[2])]
  IN IF o = <<>> THEN p
     ELSE SetProp(SetProp(p, "offsetX", Num(o[1])), "offsetY", Num(o[2]))

\* One particle in motion and the logo center somewhere on or off the canvas.
InitRetarget ==
  \E cfg \in {c \in ConfigOptions : ~c.logoSvgUrl},
     v \in {-3, 0, 4} \X {0, 2}, o \in OffsetOptions,
     c \in {<<0, 0>>, <<4, 2>>, <<8, 4>>} :
    Is([Created(cfg, FALSE, <<8, 4>>) EXCEPT
          !.width = 8, !.height = 4,
          !.particles = <<MovingParticle(v, o)>>,
          !.logoState = [@ EXCEPT !.centerX = c[1], !.centerY = c[2]]])

\* updateParticleTargets() is applied
Retarget == frameLog = <<>> /\ Becomes(updateParticleTargets(State))

\* the particle step that follows it in animate
Integrate == frameLog = <<"retarget">> /\ Becomes(updateParticlesStep(State))

NextRetarget == Retarget \/ Integrate

SpecRetarget == InitRetarget /\ [][NextRetarget]_vars

-----------------------------------------------------------------------------
(* The spring steps as functions, iterated from starts drawn from a bounded *)
(* set.  Lengths here are in units of 1/100000 px, so that the rounding of  *)
(* the arithmetic is far below the precision asked for.                     *)

\* The motion feels of getSpringPreset.
Feels == {"snappy", "smooth", "bouncy", "heavy"}

\* Starts on one axis, <<position, velocity>>, for the target 0: 2 px away at
\* rest, half a pixel away and receding, and near the target at speed.
SpringStarts == {<<200000, 0>>, <<-50000, -30000>>, <<100, 20000>>}

\* DEFAULT_CONFIG.logoSpringStrength and logoFriction
DefaultLogoSpring ==
  [springStrength |-> [num |-> 15, den |-> 1000], friction |-> [num |-> 93, den |-> 100]]

\* Either one particle of a preset away from its target, or the logo center
\* with its default spring away from its target.
InitSpring ==
  \E cfg \in {c \in ConfigOptions : ~c.logoSvgUrl},
     sx \in SpringStarts, sy \in SpringStarts :
    \/ \E feel \in Feels :
         Is([Created(cfg, FALSE, <<8, 4>>) EXCEPT
               !.particles =
                 <<[Particle(0, 0, [startX |-> sx[1], startY |-> sy[1]]
                                     @@ getSpringPreset(feel))
                      EXCEPT !.vx = Num(sx[2]), !.vy = Num(sy[2])]>>])
    \/ Is([Created(cfg, FALSE, <<8, 4>>) EXCEPT
             !.frameLog = <<"advance">>,
             !.logoState = [@ EXCEPT !.springStrength = DefaultLogoSpring.springStrength,
                                     !.friction = DefaultLogoSpring.friction,
                                     !.centerX = sx[1], !.velocityX = sx[2],
                                     !.centerY = sy[1], !.velocityY = sy[2]]])

\* springStep is applied to every particle
SpringStep ==
  /\ Len(particles) > 0
  /\ Becomes([State EXCEPT !.particles = [i \in 1..Len(@) |-> springStep(@[i], DefaultDt)]])

\* updateLogoPosition is applied
LogoStep ==
  /\ Len(particles) = 0
  /\ Becomes(updateLogoPosition([State EXCEPT !.frameLog = <<>>]))

NextSpring == SpringStep \/ LogoStep

\* Frames keep coming: each spring is stepped as long as a step changes it.
SpecSpring ==
  InitSpring /\ [][NextSpring]_vars /\ WF_vars(SpringStep) /\ WF_vars(LogoStep)

-----------------------------------------------------------------------------
(* Repulsion as a function: one particle, a pointer that moves between      *)
(* frames, and the two repulsion routines applied frame after frame.  The   *)
(* force setting is 50 so that the force is whole pixels at these distances.*)

\* Where the pointer is put: on the particle's target, 1 px and 3 px (the
\* radius) from it, and far from it.
RepelPointerPoints == {<<4, 2>>, <<5, 2>>, <<7, 2>>, <<12, 4>>}

\* Where the particle starts: on its target and beside it.
RepelStarts == {<<4, 2>>, <<6, 3>>}

InitRepel ==
  \E cfg \in {c \in ConfigOptions : ~c.logoSvgUrl},
     start \in RepelStarts, pt \in RepelPointerPoints :
    Is([Created(cfg, FALSE, <<8, 4>>) EXCEPT
          !.config = [@ EXCEPT !.mouseForce = [num |-> 50, den |-> 1]],
          !.mouse = [@ EXCEPT !.x = pt[1], !.y = pt[2], !.isActive = TRUE],
          !.particles = <<Particle(4, 2, [startX |-> start[1], startY |-> start[2]]
                                           @@ getSpringPreset("smooth"))>>])

\* the pointer is somewhere else at the next frame
PointerMoves ==
  \E pt \in RepelPointerPoints :
    Becomes([State EXCEPT !.mouse = [@ EXCEPT !.x = pt[1], !.y = pt[2],
                                              !.isActive = TRUE]])

\* the pointer is gone at the next frame
PointerLeaves == Becomes([State EXCEPT !.mouse = [@ EXCEPT !.isActive = FALSE]])

\* a frame of particles.js: updateParticles with the pointer as mouseState
ParticleFrame == Becomes(updateParticlesStep([State EXCEPT !.frameLog = <<>>]))

\* a frame of spring.js: applyRepulsion from the pointer, then springStep
SpringFrame ==
  LET options == [radius |-> config.mouseRadius, strength |-> config.mouseForce]
      repulsed(p) == IF mouse.isActive THEN applyRepulsion(p, mouse.x, mouse.y, options)
                     ELSE p
  IN Becomes([State EXCEPT
                !.particles = [i \in 1..Len(@) |-> springStep(repulsed(@[i]), DefaultDt)],
                !.frameLog = <<"integrate">>])

NextRepel == PointerMoves \/ PointerLeaves \/ ParticleFrame \/ SpringFrame

SpecRepel == InitRepel /\ [][NextRepel]_vars

\* The pointer radii that are to switch repulsion off.
RadiiOff == {0, -3}

\* The same particle and pointer under a configuration whose mouseRadius is
\* zero or negative.
InitRadius ==
  \E cfg \in {c \in ConfigOptions : ~c.logoSvgUrl}, radius \in RadiiOff,
     start \in RepelStarts, pt \in RepelPointerPoints :
    Is([Created(cfg, FALSE, <<8, 4>>) EXCEPT
          !.config = [@ EXCEPT !.mouseForce = [num |-> 50, den |-> 1],
                               !.mouseRadius = radius],
          !.mouse = [@ EXCEPT !.x = pt[1], !.y = pt[2], !.isActive = TRUE],
          !.particles = <<Particle(4, 2, [startX |-> start[1], startY |-> start[2]]
                                           @@ getSpringPreset("smooth"))>>])

SpecRadius == InitRadius /\ [][NextRepel]_vars

-----------------------------------------------------------------------------
(* Breathing: updateParticles applied frame after frame to a swarm of six,  *)
(* most of it at rest on its targets.  Lengths here are in units of         *)
(* 1/100 px: isSettled's threshold, 0.01 px, is one unit, and the breathing *)
(* amplitude of the smooth preset, 0.5 px, is 50 units.                     *)

\* Where a particle that is not at rest starts, relative to its target.
StrayStarts == {<<-120, 75>>, <<2000, -900>>, <<10, 0>>}

\* The particle i of the swarm: on its target at rest, or a stray at start.
SwarmParticle(i, start, phase) ==
  [Particle(100 * i, 0,
            [startX |-> 100 * i + start[1], startY |-> start[2]]
              @@ [getSpringPreset("smooth") EXCEPT !.breathAmplitude = 500])
     EXCEPT !.breathPhase = phase]

\* Six particles of which the last one or the last two are strays; no pointer.
InitBreath ==
  \E cfg \in {c \in ConfigOptions : ~c.logoSvgUrl},
     strays \in {1, 2}, start \in StrayStarts, phase \in {0, 2} :
    Is([Created(cfg, FALSE, <<8, 4>>) EXCEPT
          !.frameLog = <<"integrate">>,
          !.particles = [i \in 1..6 |->
                           SwarmParticle(i, IF i > 6 - strays THEN start ELSE <<0, 0>>,
                                         phase)]])

NextBreath == ParticleFrame

SpecBreath == InitBreath /\ [][NextBreath]_vars

-----------------------------------------------------------------------------
(* marchingSquares as a function, applied to fields and thresholds drawn    *)
(* from bounded sets.                                                       *)

\* The values a corner of a single cell takes, and the thresholds.
CornerValues == {0, 4, 10}
Thresholds == {3, 5, 9}

\* The field of one cell with the corner values tl, tr, br, bl.
OneCell(tl, tr, br, bl, size) ==
  [values |-> <<tl, tr, bl, br>>, cols |-> 2, rows |-> 2, cellSize |-> size]

\* The increasing profiles of the gradient fields.
Profiles == {<<0, 10, 20, 30, 40>>, <<0, 10, 110, 120, 130>>, <<0, 2, 4, 40, 100>>}

\* The 3 x 3 field whose value at row, col is g at their combination.
Gradient(g, along) ==
  [values |-> [n \in 1..9 |->
                 LET row == (n - 1) \div 3
                     col == (n - 1) % 3
                 IN g[1 + (CASE along = "rows" -> col
                             [] along = "columns" -> row
                             [] OTHER -> row + col)]],
   cols |-> 3, rows |-> 3, cellSize |-> 1, along |-> along]

\* The fields marchingSquares is applied to.
ContourFields ==
  {OneCell(tl, tr, br, bl, size) :
     tl \in CornerValues, tr \in CornerValues, br \in CornerValues,
     bl \in CornerValues, size \in {1}}
  \cup {Gradient(g, along) : g \in Profiles, along \in {"rows", "columns", "diagonal"}}

InitContours ==
  \E cfg \in {c \in ConfigOptions : ~c.logoSvgUrl}, f \in ContourFields :
    Is([Created(cfg, FALSE, <<8, 4>>) EXCEPT !.scalarField = f])

\* marchingSquares is called with the field and a threshold
ExtractContour(threshold) ==
  /\ threshold \notin DOMAIN segments
  /\ Becomes([State EXCEPT !.segments =
                 @ @@ (threshold :> marchingSquares(scalarField.values, scalarField.cols,
                                                    scalarField.rows, threshold,
                                                    scalarField.cellSize))])

NextContours == \E threshold \in Thresholds : ExtractContour(threshold)

SpecContours == InitContours /\ [][NextContours]_vars

-----------------------------------------------------------------------------
(* The claims *)

\* A frame callback fires and animate passes its guard: a frame step runs.
FrameRan == \E id \in pending : FrameCallback(id) /\ animateRuns(State)

\* The four steps of a frame, in the order they ran.
FullFrame == <<"advance", "retarget", "integrate", "render">>

\* A pointer event has reported a position.
PointerSeen == lastPointer # <<-1000, -1000>>

\* The fade rate the documentation gives, opacityTransitionSpeed = 0.1
FadeRate == [num |-> 1, den |-> 10]

\* C1: after the retarget step of a frame every particle's target is the
\* current centroid plus the particle's own offset, a defined finite value.
C1_TargetIsCentroidPlusOffset ==
  [][FrameRan =>
       \A i \in 1..Len(particles') :
         LET ox == Prop(particles'[i], "offsetX")
             oy == Prop(particles'[i], "offsetY")
         IN /\ IsNum(ox) /\ IsNum(oy)
            /\ particles'[i].targetX = Num(logoState'.centerX + ox.n)
            /\ particles'[i].targetY = Num(logoState'.centerY + oy.n)]_vars

\* C2: in every frame each particle's opacity moves toward its fade target by
\* opacity += (targetOpacity - opacity) * rate, and that opacity is the alpha
\* the particle is drawn with.
C2_OpacityFadesTowardTarget ==
  [][FrameRan =>
       \A i \in 1..Len(particles) :
         "targetOpacity" \in DOMAIN particles[i] =>
           /\ particles'[i].opacity =
                particles[i].opacity
                + Trunc((particles[i].targetOpacity - particles[i].opacity) * FadeRate.num,
                        FadeRate.den)
           /\ canvas'.dots[i].alpha = particles'[i].opacity]_vars

\* C3: a frame runs its steps in the order centroid advance, retarget,
\* integrate, render: the targets are taken from the advanced centroid, the
\* particles are integrated toward the new targets, and what is drawn is the
\* integrated positions.
C3_FrameOrder ==
  [][FrameRan =>
       /\ frameLog' = FullFrame
       /\ \A i \in 1..Len(particles) :
            LET p == particles[i]
                q == particles'[i]
                r == IF mouse.isActive
                     THEN ParticleApplyRepelForce(p, mouse.x, mouse.y,
                                                  config.mouseRadius, config.mouseForce)
                     ELSE p
                vel(v, target, pos, repel) ==
                  JsScale(JsAdd(v, JsAdd(JsScale(JsSub(target, pos), p.springStrength),
                                         repel)), p.friction)
            IN /\ q.targetX = JsAdd(Num(logoState'.centerX), Prop(p, "offsetX"))
               /\ q.targetY = JsAdd(Num(logoState'.centerY), Prop(p, "offsetY"))
               /\ q.vx = vel(p.vx, q.targetX, p.x, r.repelForceX)
               /\ q.vy = vel(p.vy, q.targetY, p.y, r.repelForceY)
               /\ q.x = JsAdd(p.x, q.vx) /\ q.y = JsAdd(p.y, q.vy)
               /\ canvas'.dots[i].x = q.x /\ canvas'.dots[i].y = q.y]_vars

\* C3 witness: a frame has run with particles while the centroid was moving
C3_Witness ==
  /\ frameLog = FullFrame
  /\ Len(particles) = MaxParticles /\ Len(canvas.dots) = MaxParticles
  /\ logoState.velocityX # 0

\* C4: while the animation is paused no frame callback fires, and no step
\* that leaves it paused advances the simulated time, moves the frame
\* baseline or runs a step of a frame.
C4_NoFrameWhilePaused ==
  [][(isPaused /\ isPaused') =>
       /\ ~(\E id \in pending : FrameCallback(id))
       /\ time' = time /\ lastFrameTime' = lastFrameTime
       /\ frameLog' = frameLog]_vars

\* C4 witness: paused after a frame ran, with time passed since the pause,
\* the pointer over the canvas and a resize waiting for its timer
C4_Witness ==
  /\ isRunning /\ isPaused /\ frameLog = FullFrame
  /\ now > lastFrameTime /\ mouse.isActive /\ resizeTimeout
  /\ pending = {} /\ animationId = 0

\* C5: the time a frame adds to the simulated time is the gap since the
\* baseline capped at DeltaCap, times the time speed; and the step that ends
\* a pause sets the baseline to the current instant.
C5_DeltaCappedFromResume ==
  [][/\ FrameRan =>
          LET timeStep == IF prefersReducedMotion THEN 0 ELSE config.timeSpeed
          IN /\ time' - time = Min(now - lastFrameTime, DeltaCap) * timeStep
             /\ time' - time <= DeltaCap * timeStep
             /\ lastFrameTime' = now
     /\ (isRunning /\ isPaused /\ ~isPaused') => lastFrameTime' = now]_vars

\* C5 witness: a frame has run MaxNow ticks after the start, the animation
\* is not paused, and the simulated time has not advanced: the ticks passed
\* during a pause and the frame measured from the resume
C5_Witness ==
  /\ isRunning /\ ~isPaused /\ ~prefersReducedMotion
  /\ now = MaxNow /\ lastFrameTime = MaxNow /\ time = 0
  /\ frameLog = FullFrame /\ Len(canvas.dots) > 0 /\ listeners = PlayListeners
  /\ fbm /\ ~reinitSinceMove /\ PointerSeen

\* C8: when the animation is not running, none of the listeners play()
\* registers is registered.
C8_DestroyRemovesListeners ==
  ~isRunning => listeners \cap PlayListeners = {}

\* C8 witness: destroyed while paused, after frames ran
C8_Witness ==
  /\ ~isRunning /\ isPaused /\ ~fbm /\ frameLog = FullFrame
  /\ listeners = {} /\ pending = {}

\* The load i is completed: it installs particles or its image fails.
LoadCompletes(i) ==
  FetchRejects(i) \/ BodyUnusable(i) \/ ImageLoads(i) \/ ImageFails(i)

\* C6: the completion of a load that a destroy() or a later initialization
\* followed does not change the particles.
C6_StaleLoadDiscarded ==
  [][\A i \in 1..Len(loads) :
       (loads[i].stale /\ LoadCompletes(i)) => particles' = particles]_vars

\* C7: whichever way the current load fails, the particles are then
\* particleCount random particles and the frame loop goes on.
C7_FailedLoadFallsBack ==
  [][\A i \in 1..Len(loads) :
       (~loads[i].stale /\ (FetchRejects(i) \/ BodyUnusable(i) \/ ImageFails(i))) =>
         /\ Len(particles') = config.particleCount
         /\ isRunning' /\ (~isPaused' => pending' # {})]_vars

\* C9: while the pointer is inactive, and frames and zone enter/leave events
\* are all that happened since it last reported a position, the centroid
\* target is that position.
C9_HoldingKeepsTarget ==
  (~mouse.isActive /\ PointerSeen /\ ~reinitSinceMove) =>
    /\ logoState.targetCenterX = lastPointer[1]
    /\ logoState.targetCenterY = lastPointer[2]

\* C9 witness: the pointer left, a zone was left after a hover, and frames
\* have carried the centroid to the held target away from the canvas center
C9_Witness ==
  /\ ~mouse.isActive /\ PointerSeen /\ ~reinitSinceMove
  /\ lastPointer # <<logoState.initialCenterX, logoState.initialCenterY>>
  /\ logoState.centerX = lastPointer[1] /\ logoState.centerY = lastPointer[2]
  /\ Len(particles) > 0 /\ "targetOpacity" \in DOMAIN particles[1]
  /\ particles[1].targetOpacity = OpacityOne

\* C10: a resize handled while the centroid is Following or Holding
\* recomputes the canvas-center anchor and leaves the centroid's position,
\* velocity, target and following state as they are.
C10_ResizeKeepsCentroid ==
  [][(ResizeTimer /\ PointerSeen /\ ~reinitSinceMove) =>
       /\ logoState'.initialCenterX = width' \div 2
       /\ logoState'.initialCenterY = height' \div 2
       /\ logoState'.centerX = logoState.centerX
       /\ logoState'.centerY = logoState.centerY
       /\ logoState'.velocityX = logoState.velocityX
       /\ logoState'.velocityY = logoState.velocityY
       /\ logoState'.targetCenterX = logoState.targetCenterX
       /\ logoState'.targetCenterY = logoState.targetCenterY
       /\ logoState'.isFollowingMouse = logoState.isFollowingMouse]_vars

\* C11: on an interactive-zone leave, an active pointer's position becomes
\* the centroid target and the centroid follows; with an inactive pointer the
\* target and the following state stay as they were.
C11_ZoneLeaveResumesFollowing ==
  [][\A e \in InteractiveElements :
       InteractiveLeave(e) =>
         IF mouse.isActive
         THEN /\ logoState'.targetCenterX = mouse.x
              /\ logoState'.targetCenterY = mouse.y
              /\ logoState'.isFollowingMouse
         ELSE /\ logoState'.targetCenterX = logoState.targetCenterX
              /\ logoState'.targetCenterY = logoState.targetCenterY
              /\ logoState'.isFollowingMouse = logoState.isFollowingMouse]_vars

\* C11 witness: a resize reset the centroid while the pointer was active over
\* a zone, and the zone leave has sent it after the pointer again
C11_Witness ==
  /\ mouse.isActive /\ reinitSinceMove /\ logoState.isFollowingMouse
  /\ logoState.targetCenterX = mouse.x /\ logoState.targetCenterY = mouse.y
  /\ <<mouse.x, mouse.y>> # <<logoState.initialCenterX, logoState.initialCenterY>>
  /\ Len(particles) > 0 /\ "targetOpacity" \in DOMAIN particles[1]
  /\ particles[1].targetOpacity = OpacityOne

\* The position, velocity and target of every particle.
Motion(ps) ==
  [i \in 1..Len(ps) |-> <<ps[i].x, ps[i].y, ps[i].vx, ps[i].vy,
                           ps[i].targetX, ps[i].targetY>>]

\* C12: interactive-zone enter and leave events leave every particle's
\* position, velocity and target as they are, and zone enter leaves the
\* centroid as it is.
C12_ZoneEventsOnlyFade ==
  [][\A e \in InteractiveElements :
       /\ (InteractiveEnter(e) \/ InteractiveLeave(e)) =>
            Motion(particles') = Motion(particles)
       /\ InteractiveEnter(e) => logoState' = logoState]_vars

\* C12 witness: the zone was entered while the centroid was moving after
\* the pointer, and it is still moving
C12_Witness ==
  /\ mouse.isActive /\ logoState.isFollowingMouse /\ logoState.velocityX # 0
  /\ Len(particles) > 0 /\ "targetOpacity" \in DOMAIN particles[1]
  /\ particles[1].targetOpacity = 0

\* C13: retargeting leaves every particle's position and velocity as they
\* are, wherever the target goes and whatever the velocity is.
C13_RetargetKeepsMotion ==
  [][Retarget =>
       /\ Len(particles') = Len(particles)
       /\ \A i \in 1..Len(particles) :
            /\ particles'[i].x = particles[i].x /\ particles'[i].y = particles[i].y
            /\ particles'[i].vx = particles[i].vx
            /\ particles'[i].vy = particles[i].vy]_vars

\* C13 witness: a particle moving at <<4, 2>> has been given a target 11
\* pixels from its old one and still moves at <<4, 2>>
C13_Witness ==
  /\ frameLog = <<"retarget">> /\ Len(particles) = 1
  /\ particles[1].targetX = Num(11) /\ particles[1].targetY = Num(5)
  /\ particles[1].vx = Num(4) /\ particles[1].vy = Num(2)

\* a = b and a < b for fractions; false when either is not a number
RatEq(a, b) == a.den # 0 /\ b.den # 0 /\ a.num * b.den = b.num * a.den
RatLess(a, b) ==
  IF a.den * b.den > 0 THEN a.num * b.den < b.num * a.den
  ELSE a.den * b.den < 0 /\ a.num * b.den > b.num * a.den

\* the points p and q are the same
SamePoint(p, q) == RatEq(p[1], q[1]) /\ RatEq(p[2], q[2])

\* The field is a single cell; its corner values.
IsOneCell == scalarField # <<>> /\ scalarField.cols = 2 /\ scalarField.rows = 2
CornerTL == scalarField.values[1]
CornerTR == scalarField.values[2]
CornerBL == scalarField.values[3]
CornerBR == scalarField.values[4]

\* The two corner values of the edge e of the cell, left to right or top to bottom.
EdgeCorners(e) ==
  CASE e = 0 -> <<CornerTL, CornerTR>>
    [] e = 1 -> <<CornerTR, CornerBR>>
    [] e = 2 -> <<CornerBL, CornerBR>>
    [] e = 3 -> <<CornerTL, CornerBL>>

\* The iso-line of the threshold crosses the edge e: one corner is above, one is not.
Crossed(e, threshold) ==
  (EdgeCorners(e)[1] > threshold) # (EdgeCorners(e)[2] > threshold)

\* Where the iso-line crosses the edge e of the cell at the origin:
\* t = (threshold - cornerA) / (cornerB - cornerA) along the edge.
Crossing(e, threshold) ==
  LET size == scalarField.cellSize
      at == [num |-> (threshold - EdgeCorners(e)[1]) * size,
             den |-> EdgeCorners(e)[2] - EdgeCorners(e)[1]]
  IN CASE e = 0 -> <<at, Whole(0)>>
       [] e = 1 -> <<Whole(size), at>>
       [] e = 2 -> <<at, Whole(size)>>
       [] e = 3 -> <<Whole(0), at>>

\* The segment seg joins the crossings of the edges e1 and e2.
Joins(seg, e1, e2, threshold) ==
  \/ SamePoint(seg[1], Crossing(e1, threshold)) /\ SamePoint(seg[2], Crossing(e2, threshold))
  \/ SamePoint(seg[1], Crossing(e2, threshold)) /\ SamePoint(seg[2], Crossing(e1, threshold))

\* C14: every endpoint of every segment marchingSquares emits for a cell is
\* the crossing of an edge the iso-line crosses, and every crossed edge
\* carries exactly one endpoint.
C14_EndpointsOnCrossedEdges ==
  \A threshold \in DOMAIN segments :
    IsOneCell =>
      LET segs == segments[threshold]
          ends == (1..Len(segs)) \X {1, 2}
      IN /\ \A kj \in ends :
              \E e \in 0..3 : /\ Crossed(e, threshold)
                               /\ SamePoint(segs[kj[1]][kj[2]], Crossing(e, threshold))
         /\ \A e \in 0..3 :
              Crossed(e, threshold) =>
                Cardinality({kj \in ends :
                               SamePoint(segs[kj[1]][kj[2]], Crossing(e, threshold))}) = 1

\* C15: in a saddle cell marchingSquares emits two segments, each joining
\* two adjacent edges, with no edge in both; which edges are joined is fixed
\* by the diagonal that is above: top with right and bottom with left when
\* tl and br are above, left with top and right with bottom when tr and bl are.
C15_SaddleIsTwoSegments ==
  \A threshold \in DOMAIN segments :
    LET segs == segments[threshold]
        above(v) == v > threshold
        pairs(a, b, c, d) ==
          /\ Len(segs) = 2
          /\ \/ Joins(segs[1], a, b, threshold) /\ Joins(segs[2], c, d, threshold)
             \/ Joins(segs[2], a, b, threshold) /\ Joins(segs[1], c, d, threshold)
    IN /\ (IsOneCell /\ above(CornerTL) /\ above(CornerBR)
            /\ ~above(CornerTR) /\ ~above(CornerBL)) => pairs(0, 1, 2, 3)
       /\ (IsOneCell /\ above(CornerTR) /\ above(CornerBL)
            /\ ~above(CornerTL) /\ ~above(CornerBR)) => pairs(3, 0, 1, 2)

\* C15 witness: both saddles, with unequal corner values, have been extracted
C15_Witness ==
  /\ IsOneCell /\ 5 \in DOMAIN segments /\ Len(segments[5]) = 2
  /\ \/ CornerTL = 10 /\ CornerBR = 10 /\ CornerTR = 0 /\ CornerBL = 4
     \/ CornerTR = 10 /\ CornerBL = 10 /\ CornerTL = 4 /\ CornerBR = 0

\* C16: for a cell whose left corners are above the threshold and whose
\* right corners are not, marchingSquares emits one segment, from the
\* interpolated crossing of the top edge to that of the bottom edge, both
\* strictly between the left and the right edge.
C16_LeftAboveCrossesTopAndBottom ==
  \A threshold \in DOMAIN segments :
    (IsOneCell /\ CornerTL > threshold /\ CornerBL > threshold
     /\ CornerTR < threshold /\ CornerBR < threshold) =>
      LET segs == segments[threshold]
          size == scalarField.cellSize
          top == <<[num |-> (threshold - CornerTL) * size, den |-> CornerTR - CornerTL],
                   Whole(0)>>
          bottom == <<[num |-> (threshold - CornerBL) * size, den |-> CornerBR - CornerBL],
                      Whole(size)>>
      IN /\ Len(segs) = 1
         /\ \/ SamePoint(segs[1][1], top) /\ SamePoint(segs[1][2], bottom)
            \/ SamePoint(segs[1][1], bottom) /\ SamePoint(segs[1][2], top)
         /\ \A j \in {1, 2} : /\ RatLess(Whole(0), segs[1][j][1])
                                /\ RatLess(segs[1][j][1], Whole(size))

\* C16 witness: the unit cell tl = 10, tr = 0, br = 0, bl = 10 at threshold 5
\* gives the midpoints of the bottom and the top edge
C16_Witness ==
  /\ IsOneCell /\ scalarField.cellSize = 1
  /\ CornerTL = 10 /\ CornerTR = 0 /\ CornerBR = 0 /\ CornerBL = 10
  /\ 5 \in DOMAIN segments /\ Len(segments[5]) = 1
  /\ SamePoint(segments[5][1][1], <<[num |-> 1, den |-> 2], Whole(1)>>)
  /\ SamePoint(segments[5][1][2], <<[num |-> 1, den |-> 2], Whole(0)>>)

\* a + b for fractions
RatAdd(a, b) == [num |-> a.num * b.den + b.num * a.den, den |-> a.den * b.den]

\* How far the point p is in the direction the gradient field increases.
Progress(p) ==
  CASE scalarField.along = "rows" -> p[1]
    [] scalarField.along = "columns" -> p[2]
    [] OTHER -> RatAdd(p[1], p[2])

\* C17: on a field that increases along rows, along columns or along the
\* diagonal, every endpoint of the contour of a higher threshold is at or
\* beyond every endpoint of the contour of a lower threshold, in the
\* direction of increase.
C17_HigherThresholdIsFurther ==
  \A lower \in DOMAIN segments, higher \in DOMAIN segments :
    (scalarField # <<>> /\ "along" \in DOMAIN scalarField /\ lower < higher) =>
      \A k \in 1..Len(segments[lower]), l \in 1..Len(segments[higher]), i \in {1, 2}, j \in {1, 2} :
        LET behind == Progress(segments[lower][k][i])
            ahead == Progress(segments[higher][l][j])
        IN /\ behind.den # 0 /\ ahead.den # 0
           /\ ~RatLess(ahead, behind)

\* The coordinates the noise function is sampled at for the current time.
NoiseSamples == noiseSamples(State, time)

\* C18: a frame that advances the animation time samples the noise function
\* at other coordinates than the time before it gave.
C18_NoiseSampledAtFrameTime ==
  [][(FrameRan /\ time' # time) => NoiseSamples' # NoiseSamples]_vars

\* |n|
AbsInt(n) == IF n < 0 THEN -n ELSE n

\* Every spring is within d of its target on both axes, at a speed within v.
SpringsWithin(d, v) ==
  /\ \A i \in 1..Len(particles) :
       LET p == particles[i]
       IN /\ IsNum(p.x) /\ IsNum(p.y) /\ IsNum(p.vx) /\ IsNum(p.vy)
          /\ AbsInt(p.x.n - p.targetX.n) <= d /\ AbsInt(p.y.n - p.targetY.n) <= d
          /\ AbsInt(p.vx.n) <= v /\ AbsInt(p.vy.n) <= v
  /\ AbsInt(logoState.centerX - logoState.targetCenterX) <= d
  /\ AbsInt(logoState.centerY - logoState.targetCenterY) <= d
  /\ AbsInt(logoState.velocityX) <= v /\ AbsInt(logoState.velocityY) <= v

\* C19: from every start, with each preset and with the default logo spring,
\* the spring steps bring position within RestPrecision of the target and
\* velocity within RestPrecision of zero and keep them there, and the
\* distance to the target never exceeds 10 px.
C19_SpringSettles ==
  /\ [](SpringsWithin(1000000, 1000000))
  /\ <>[](SpringsWithin(RestPrecision, RestPrecision))

\* C19 witness: a bouncy particle that started 2 px from its target is at rest
\* within the precision, and not exactly on the target
C19_Witness ==
  /\ Len(particles) = 1 /\ particles[1].friction = [num |-> 88, den |-> 100]
  /\ SpringsWithin(RestPrecision, 0)
  /\ particles[1].x # particles[1].targetX

\* the square of the distance from particle p to the pointer
PointerDistSq(p) ==
  (p.x.n - mouse.x) * (p.x.n - mouse.x) + (p.y.n - mouse.y) * (p.y.n - mouse.y)

\* p is farther from an active pointer than the pointer radius
OutsideRadius(p) ==
  mouse.isActive /\ PointerDistSq(p) > config.mouseRadius * config.mouseRadius

\* C20: in every frame a particle farther from the pointer than the radius
\* moves by its spring alone, whatever happened to it the frame before, and
\* every particle, one on the pointer included, keeps a position and a
\* velocity that are numbers.
C20_NoRepulsionOutsideRadius ==
  [][mouse' = mouse =>
       \A i \in 1..Len(particles) :
         LET p == particles[i]
             q == particles'[i]
         IN /\ IsNum(q.x) /\ IsNum(q.y) /\ IsNum(q.vx) /\ IsNum(q.vy)
            /\ OutsideRadius(p) =>
                 /\ q.vx = springStep(p, DefaultDt).vx /\ q.vy = springStep(p, DefaultDt).vy
                 /\ q.x = springStep(p, DefaultDt).x /\ q.y = springStep(p, DefaultDt).y]_vars

\* C20 witness: a particle that the pointer has pushed off its start is in
\* flight outside the radius of the pointer, with no repel force left
C20_Witness ==
  /\ Len(particles) = 1 /\ OutsideRadius(particles[1])
  /\ particles[1].vx # Num(0)
  /\ particles[1].repelForceX = Num(0) /\ particles[1].repelForceY = Num(0)

\* C21: with a pointer radius that is zero or negative, every particle moves
\* by its spring alone in every frame, wherever the pointer is.
C21_NoRepulsionWithoutRadius ==
  [][(mouse' = mouse /\ config.mouseRadius <= 0) =>
       \A i \in 1..Len(particles) :
         /\ particles'[i].vx = springStep(particles[i], DefaultDt).vx
         /\ particles'[i].vy = springStep(particles[i], DefaultDt).vy
         /\ particles'[i].x = springStep(particles[i], DefaultDt).x
         /\ particles'[i].y = springStep(particles[i], DefaultDt).y]_vars

\* The positions of the particles ps.
Positions(ps) == [i \in 1..Len(ps) |-> <<ps[i].x, ps[i].y>>]

\* What is drawn is the configured number of particles, each at its target.
StaticPresentation ==
  /\ Len(particles) = config.particleCount
  /\ Len(canvas.dots) = Len(particles)
  /\ \A i \in 1..Len(particles) :
       /\ canvas.dots[i].x = particles[i].targetX /\ IsNum(particles[i].targetX)
       /\ canvas.dots[i].y = particles[i].targetY /\ IsNum(particles[i].targetY)

\* C22: when the user prefers reduced motion, no frame changes a particle's
\* position or the animation time, whatever the controller was asked to do,
\* and what is shown is the particles at their targets.
C22_ReducedMotionIsStatic ==
  /\ [][(prefersReducedMotion /\ FrameRan) =>
          (Positions(particles') = Positions(particles) /\ time' = time)]_vars
  /\ [](prefersReducedMotion => StaticPresentation)

\* C23: a call of updateConfig that changes the particle count, the sampling
\* density or the grid cell size reinitializes everything: right after it
\* the grid has the dimensions the cell size gives and, without a logo, there
\* are as many particles as the particle count says.
C23_StructuralUpdateReinitializes ==
  [][(\/ config'.particleCount # config.particleCount
      \/ config'.useSamplingDensity # config.useSamplingDensity
      \/ config'.gridSize # config.gridSize) =>
       /\ reinitSinceMove'
       /\ cols' = CeilDiv(width', config'.gridSize) + 1
       /\ rows' = CeilDiv(height', config'.gridSize) + 1
       /\ ~config'.logoSvgUrl => Len(particles') = config'.particleCount]_vars

\* The stiffness q is positive; the damping q is inside (0, 1).
ValidStiffness(q) == q.num > 0
ValidDamping(q) == q.num > 0 /\ q.num < q.den

\* C24: no invalid value is ever in force, neither from the options of the
\* constructor nor from updateConfig: the stiffness in use is positive, the
\* damping is inside (0, 1) and the pointer radius is not negative.
C24_InvalidConfigIsRejected ==
  /\ ValidStiffness(config.logoSpringStrength) /\ ValidStiffness(logoState.springStrength)
  /\ ValidDamping(config.logoFriction) /\ ValidDamping(logoState.friction)
  /\ config.mouseRadius >= 0

\* C25: in every state a call of togglePause() inverts the paused flag, and
\* a second call brings it back to what it was.
C25_TogglePauseInverts ==
  /\ togglePause(State).isPaused = ~isPaused
  /\ togglePause(togglePause(State)).isPaused = isPaused

\* The step on one axis: vel' = (vel + (target - pos) * stiffness) * damping
\* and pos' = pos + vel'.
SpringFormula(pos, vel, target, stiffness, damping) ==
  LET v == Trunc((vel + Trunc((target - pos) * stiffness.num, stiffness.den))
                   * damping.num, damping.den)
  IN [vel |-> v, pos |-> pos + v]

\* The springs of the current state as arguments: each particle whose
\* coordinates are numbers, and the logo center.
SpringInputs ==
  {[x |-> particles[i].x.n, y |-> particles[i].y.n,
    vx |-> particles[i].vx.n, vy |-> particles[i].vy.n,
    targetX |-> particles[i].targetX.n, targetY |-> particles[i].targetY.n,
    springStrength |-> particles[i].springStrength, friction |-> particles[i].friction] :
     i \in {j \in 1..Len(particles) :
              /\ IsNum(particles[j].x) /\ IsNum(particles[j].y)
              /\ IsNum(particles[j].vx) /\ IsNum(particles[j].vy)
              /\ IsNum(particles[j].targetX) /\ IsNum(particles[j].targetY)}}
  \cup {[x |-> logoState.centerX, y |-> logoState.centerY,
          vx |-> logoState.velocityX, vy |-> logoState.velocityY,
          targetX |-> logoState.targetCenterX, targetY |-> logoState.targetCenterY,
          springStrength |-> logoState.springStrength, friction |-> logoState.friction]}

\* A particle with the arguments a, no breathing and no repel force.
AsParticle(a) ==
  [Particle(a.targetX, a.targetY,
            [startX |-> a.x, startY |-> a.y, springStrength |-> a.springStrength,
             friction |-> a.friction, breathAmplitude |-> 0])
     EXCEPT !.vx = Num(a.vx), !.vy = Num(a.vy)]

\* The logo center with the arguments a.
AsLogo(a) ==
  [State EXCEPT !.frameLog = <<>>,
                !.logoState = [@ EXCEPT !.centerX = a.x, !.centerY = a.y,
                                        !.velocityX = a.vx, !.velocityY = a.vy,
                                        !.targetCenterX = a.targetX,
                                        !.targetCenterY = a.targetY,
                                        !.springStrength = a.springStrength,
                                        !.friction = a.friction]]

\* The delta times a step is given.
DeltaTimes == {0, DefaultDt, 100}

\* C26: on the same position, velocity, target, stiffness and damping,
\* springStep, Particle.update without breathing and repel force, and
\* updateLogoPosition give on each axis the velocity
\* (vel + (target - pos) * stiffness) * damping and the position pos + vel',
\* whatever the delta time and whatever the time of the frame.
C26_OneSpringStep ==
  \A a \in SpringInputs :
    LET fx == SpringFormula(a.x, a.vx, a.targetX, a.springStrength, a.friction)
        fy == SpringFormula(a.y, a.vy, a.targetY, a.springStrength, a.friction)
        viaStep == springStep(AsParticle(a), DefaultDt)
        viaUpdate == ParticleUpdate(AsParticle(a), FALSE)
        viaLogo == updateLogoPosition(AsLogo(a)).logoState
    IN /\ viaStep.vx = Num(fx.vel) /\ viaStep.x = Num(fx.pos)
       /\ viaStep.vy = Num(fy.vel) /\ viaStep.y = Num(fy.pos)
       /\ viaUpdate.vx = Num(fx.vel) /\ viaUpdate.x = Num(fx.pos)
       /\ viaUpdate.vy = Num(fy.vel) /\ viaUpdate.y = Num(fy.pos)
       /\ viaLogo.velocityX = fx.vel /\ viaLogo.centerX = fx.pos
       /\ viaLogo.velocityY = fy.vel /\ viaLogo.centerY = fy.pos
       /\ \A dt \in DeltaTimes : springStep(AsParticle(a), dt) = viaStep
       /\ \A t \in 0..MaxNow :
            /\ frameStep(AsLogo(a), t).logoState = frameStep(AsLogo(a), 0).logoState
            /\ frameStep(AsLogo(a), t).particles = frameStep(AsLogo(a), 0).particles

\* C26 witness: a spring that steps have taken off its start, in motion on
\* both axes, away from its target, that the step moves
C26_Witness ==
  \E a \in SpringInputs :
    /\ a.x \notin {st[1] : st \in SpringStarts}
    /\ a.vx # 0 /\ a.vy # 0 /\ a.x # a.targetX /\ a.y # a.targetY
    /\ a.springStrength = getSpringPreset("heavy").springStrength
    /\ springStep(AsParticle(a), DefaultDt).x # Num(a.x)
    /\ updateLogoPosition(AsLogo(a)).logoState.centerY # a.y

\* C27: in every frame a particle that is not itself settled is integrated
\* toward its stored target, with no breathing offset, and no particle's
\* stored target is changed.
C27_BreathingOnlyWhenSettled ==
  [][\A i \in 1..Len(particles) :
       LET p == particles[i]
           q == particles'[i]
       IN /\ q.targetX = p.targetX /\ q.targetY = p.targetY
          /\ ~ParticleIsSettled(p) =>
               /\ q.breathPhase = p.breathPhase
               /\ q.vx = springStep(p, DefaultDt).vx /\ q.vy = springStep(p, DefaultDt).vy
               /\ q.x = springStep(p, DefaultDt).x /\ q.y = springStep(p, DefaultDt).y]_vars

\* C28: at most one frame callback is pending, and one is pending only while
\* the controller is running and not paused.
C28_OnePendingCallback ==
  /\ Cardinality(pending) <= 1
  /\ pending # {} => (isRunning /\ ~isPaused)

\* C28 witness: after an updateConfig that took effect, a resize that took
\* effect, and a frame, a resume or a new play later than the start, the
\* controller is running with one callback pending
C28_Witness ==
  /\ Cardinality(pending) = 1 /\ isRunning /\ ~isPaused
  /\ config.particleCount # MaxParticles /\ Len(particles) = config.particleCount
  /\ lastFrameTime > 0 /\ rect = <<4, 4>> /\ width = 4

\* C29: while the controller is not running, that is before the first play()
\* and from destroy() until the next play(), the particle list is empty and
\* the noise field and the noise generator are null.
C29_ReleasedStaysReleased ==
  ~isRunning => (particles = <<>> /\ noiseField = -1 /\ ~fbm)

\* C30: while the pointer is over an interactive element, after its
\* mouseenter and before its mouseleave, every particle there is has the
\* fade target 0.
C30_HoverKeepsFadeTarget ==
  hoverZone =>
    \A i \in 1..Len(particles) :
      "targetOpacity" \in DOMAIN particles[i] /\ particles[i].targetOpacity = 0

====
